---- MODULE Spec2Model ----
(***************************************************************************)
(* Frontier Online Training Academy API (src/main.py, src/schemas.py).     *)
(*                                                                         *)
(* The database is the only state: every collection is the sequence of its *)
(* documents in insertion order (find_one and update_one act on the first  *)
(* match in that order).  A document's _id is its position, since nothing  *)
(* is ever deleted.  A field a document does not carry reads as Missing,   *)
(* which is what dict.get returns for it.  Percentages and scores are kept *)
(* in hundredths (2500 is 25.0), which is exactly what round(x, 2) keeps.  *)
(* A response is the value the handler returns (or the status it raises);  *)
(* how the framework serialises that value is not modelled.  Timestamps    *)
(* (updated_at, issued_at), which no handler reads back, are left out.     *)
(***************************************************************************)
EXTENDS Integers, Sequences, FiniteSets, TLC

VARIABLES
    course,       \* collection "course"
    lesson,       \* collection "lesson"
    enrollment,   \* collection "enrollment"
    progress,     \* collection "progress"
    quiz,         \* collection "quiz"
    certificate,  \* collection "certificate"
    payment,      \* collection "payment"
    resp,         \* the last request handled and what its handler returned
    marked,       \* history: the lesson ids written so far, per (user, course)
    pc,           \* concurrent requests: each request's position in its handler
    req,          \* concurrent requests: each request's arguments
    loc           \* concurrent requests: each handler's local variables

vars == <<course, lesson, enrollment, progress, quiz, certificate, payment,
          resp, marked, pc, req, loc>>

(* ---------------------------------------------------------------- bounds *)

MaxLessons == 4
MaxLessonsCrash == 2
MaxQuestions == 3
MaxAnswers == 2
MaxQuizzes == 1
MaxCourses == 7
NumReq == 2
MaxLessonsConc == 1

(* ---------------------------------------------------------------- inputs *)

Missing == "<missing>"

UserIds == {"u1"}
CourseIds == {"c1", "c2"}
LessonIds == {"L1", "L2"}
Pairs == UserIds \X CourseIds

\* The document (or response body) d carries field f with value v.
Carries(d, f, v) == f \in DOMAIN d /\ d[f] = v

NoBody == [f \in {} |-> Missing]

Min(S) == CHOOSE x \in S : \A y \in S : x <= y

(* ------------------------------------------------- the document store *)

\* create_document(name, data): insert, the new document's _id returned.
NewId(coll) == Len(coll) + 1

CreateDocument(coll, data) ==
    Append(coll, [f \in DOMAIN data \cup {"_id"} |->
                     IF f = "_id" THEN NewId(coll) ELSE data[f]])

\* find_one({"user_id": u, "course_id": c}): the first match's position, 0 for None.
FindByPair(coll, u, c) ==
    LET hits == {i \in 1..Len(coll) :
                    coll[i].user_id = u /\ coll[i].course_id = c}
    IN  IF hits = {} THEN 0 ELSE Min(hits)

\* count_documents({"course_id": c})
CountByCourse(coll, c) == Cardinality({i \in 1..Len(coll) : coll[i].course_id = c})

\* update_one({"_id": id}, {"$set": data}): the fields of data overwritten.
UpdateById(coll, id, data) ==
    [i \in 1..Len(coll) |->
        IF coll[i]._id = id
        THEN [f \in DOMAIN coll[i] \cup DOMAIN data |->
                 IF f \in DOMAIN data THEN data[f] ELSE coll[i][f]]
        ELSE coll[i]]

\* round(num / den, 2) in hundredths, ties to even as Python rounds.
Round2(num, den) ==
    LET n == 100 * num
        q == n \div den
        r == n % den
    IN  IF 2 * r > den \/ (2 * r = den /\ q % 2 = 1) THEN q + 1 ELSE q

(* ----------------------------------------------------------- enrollment *)

CreateEnrollmentIfAbsent(enr, u, c) ==
    IF FindByPair(enr, u, c) # 0 THEN enr
    ELSE CreateDocument(enr, [user_id |-> u, course_id |-> c,
                              status |-> "enrolled", progress |-> 0])

\* create_document("enrollment", {user_id, course_id, "status": "enrolled", "progress": 0.0})
CreateEnrollment(enr, u, c) ==
    CreateDocument(enr, [user_id |-> u, course_id |-> c,
                         status |-> "enrolled", progress |-> 0])

EnrollAlwaysCreate(enr, u, c) ==
    [enrollment |-> CreateDocument(enr, [user_id |-> u, course_id |-> c,
                                         status |-> "enrolled", progress |-> 0]),
     body |-> [_id |-> NewId(enr), status |-> "enrolled"]]

\* enroll: the collection afterwards and the value returned.
EnrollHandler(enr, u, c) ==
    LET existing == FindByPair(enr, u, c)
    IN  IF existing # 0
        THEN [enrollment |-> enr, body |-> enr[existing]]
        ELSE [enrollment |-> CreateEnrollment(enr, u, c),
              body |-> [_id |-> NewId(enr), status |-> "enrolled"]]

(* ------------------------------------------------------------- progress *)

CompletedAfterOverwrite(prog, u, c, l) == {l}

\* completed = set(pr.get("completed_lessons", [])) if pr else set(); completed.add(lesson_id)
CompletedAfter(prog, u, c, l) ==
    LET pr == FindByPair(prog, u, c)
    IN  (IF pr # 0 THEN prog[pr].completed_lessons ELSE {}) \cup {l}

WriteProgressAddToSet(prog, pr, u, c, completed, l) ==
    LET cur == FindByPair(prog, u, c)
        data == [user_id |-> u, course_id |-> c,
                 completed_lessons |->
                     (IF cur # 0 THEN prog[cur].completed_lessons ELSE {}) \cup {l},
                 last_lesson_id |-> l]
    IN  IF cur # 0 THEN UpdateById(prog, cur, data) ELSE CreateDocument(prog, data)

\* The progress write: update_one by _id if pr else create_document.
WriteProgress(prog, pr, u, c, completed, l) ==
    LET data == [user_id |-> u, course_id |-> c,
                 completed_lessons |-> completed, last_lesson_id |-> l]
    IN  IF pr # 0 THEN UpdateById(prog, pr, data) ELSE CreateDocument(prog, data)

\* total_lessons = count_documents(...) or 1; percent = round(100 * len(completed) / total_lessons, 2)
Percent(les, c, completed) ==
    LET n == CountByCourse(les, c)
        total_lessons == IF n = 0 THEN 1 ELSE n
    IN  Round2(100 * Cardinality(completed), total_lessons)

UpsertEnrollmentInsert(enr, u, c, percent) ==
    CreateDocument(enr, [user_id |-> u, course_id |-> c,
                         status |-> Missing, progress |-> percent])

UpsertEnrollmentReplace(enr, u, c, percent) ==
    LET i == FindByPair(enr, u, c)
    IN  IF i # 0
        THEN [enr EXCEPT ![i] = [_id |-> enr[i]._id, user_id |-> u, course_id |-> c,
                                 status |-> Missing, progress |-> percent]]
        ELSE CreateDocument(enr, [user_id |-> u, course_id |-> c,
                                  status |-> Missing, progress |-> percent])

\* update_one({"user_id": u, "course_id": c}, {"$set": {"progress": percent}}, upsert=True):
\* the first match gets the new progress; with no match a document made of the
\* filter's fields and the $set fields is inserted, so it carries no status.
UpsertEnrollment(enr, u, c, percent) ==
    LET i == FindByPair(enr, u, c)
    IN  IF i # 0
        THEN [enr EXCEPT ![i].progress = percent]
        ELSE CreateDocument(enr, [user_id |-> u, course_id |-> c,
                                  status |-> Missing, progress |-> percent])

(* ---------------------------------------------------------------- state *)

\* seed_data: the five sample courses, created at startup in an empty collection.
SeedCourses ==
    <<[_id |-> 1, category |-> "IELTS", price |-> 149],
      [_id |-> 2, category |-> "Accent & Spoken English", price |-> 129],
      [_id |-> 3, category |-> "Personality Development", price |-> 99],
      [_id |-> 4, category |-> "Leadership & Corporate Communication", price |-> 199],
      [_id |-> 5, category |-> "CPHQ & Healthcare Quality", price |-> 249]>>

\* resp: the operation, its arguments (a record), the HTTP status and the value
\* the handler returned (NoBody when it raised).
NoResp == [op |-> "none", args |-> NoBody, code |-> 0, body |-> NoBody]

Response(op, args, code, body) ==
    [op |-> op, args |-> args, code |-> code, body |-> body]

Reqs == 1..NumReq

\* A request not yet received, and a handler's locals before it has run.
NoReq == [op |-> "none", args |-> NoBody]

NoLocals == [pr |-> 0, completed |-> {}, total_lessons |-> 0, percent |-> 0,
             body |-> NoBody]

Init ==
    /\ course = SeedCourses
    /\ lesson = <<>>
    /\ enrollment = <<>>
    /\ progress = <<>>
    /\ quiz = <<>>
    /\ certificate = <<>>
    /\ payment = <<>>
    /\ resp = NoResp
    /\ marked = [p \in Pairs |-> {}]
    /\ pc = [r \in Reqs |-> "idle"]
    /\ req = [r \in Reqs |-> NoReq]
    /\ loc = [r \in Reqs |-> NoLocals]

(* ------------------------------------- requests handled one at a time *)

Enroll(u, c) ==
    LET r == EnrollHandler(enrollment, u, c)
    IN  /\ enrollment' = r.enrollment
        /\ resp' = Response("enroll", [user_id |-> u, course_id |-> c], 200, r.body)
        /\ UNCHANGED <<course, lesson, progress, quiz, certificate, payment,
                       marked, pc, req, loc>>

MarkProgress(u, c, l) ==
    LET pr == FindByPair(progress, u, c)
        completed == CompletedAfter(progress, u, c, l)
        percent == Percent(lesson, c, completed)
    IN  /\ progress' = WriteProgress(progress, pr, u, c, completed, l)
        /\ enrollment' = UpsertEnrollment(enrollment, u, c, percent)
        /\ marked' = [marked EXCEPT ![<<u, c>>] = @ \cup {l}]
        /\ resp' = Response("mark_progress",
                            [user_id |-> u, course_id |-> c, lesson_id |-> l],
                            200, [progress |-> percent])
        /\ UNCHANGED <<course, lesson, quiz, certificate, payment, pc, req, loc>>

\* mark_progress stopped between its progress write and its enrollment write
\* (the store failing, the process killed): nothing is returned.
MarkProgressCrash(u, c, l) ==
    LET pr == FindByPair(progress, u, c)
        completed == CompletedAfter(progress, u, c, l)
    IN  /\ progress' = WriteProgress(progress, pr, u, c, completed, l)
        /\ marked' = [marked EXCEPT ![<<u, c>>] = @ \cup {l}]
        /\ resp' = Response("mark_progress",
                            [user_id |-> u, course_id |-> c, lesson_id |-> l],
                            500, NoBody)
        /\ UNCHANGED <<course, lesson, enrollment, quiz, certificate, payment,
                       pc, req, loc>>

\* admin_create_lesson; max caps the collection so that the model stays finite.
AdminCreateLesson(c, max) ==
    /\ Len(lesson) < max
    /\ lesson' = CreateDocument(lesson, [course_id |-> c])
    /\ resp' = Response("admin_create_lesson", [course_id |-> c], 200,
                        [_id |-> NewId(lesson)])
    /\ UNCHANGED <<course, enrollment, progress, quiz, certificate, payment,
                   marked, pc, req, loc>>

Next ==
    \/ \E u \in UserIds, c \in CourseIds : Enroll(u, c)
    \/ \E u \in UserIds, c \in CourseIds, l \in LessonIds : MarkProgress(u, c, l)
    \/ \E c \in CourseIds : AdminCreateLesson(c, MaxLessons)

Spec == Init /\ [][Next]_vars

\* The same requests, mark_progress also allowed to stop between its two writes.
NextCrash ==
    \/ \E u \in UserIds, c \in CourseIds : Enroll(u, c)
    \/ \E u \in UserIds, c \in CourseIds, l \in LessonIds : MarkProgress(u, c, l)
    \/ \E u \in UserIds, c \in CourseIds, l \in LessonIds : MarkProgressCrash(u, c, l)
    \/ \E c \in CourseIds : AdminCreateLesson(c, MaxLessonsCrash)

SpecCrash == Init /\ [][NextCrash]_vars

(* --------------------------------------------- requests in flight together *)
(* Each handler is a sequence of database operations, each one atomic in    *)
(* the store; between two of them another request's operation may run.      *)

\* enroll, to its find_one: the existing document is returned at once, and
\* otherwise the handler goes on to create one.
EnrollFind(r, u, c) ==
    LET existing == FindByPair(enrollment, u, c)
    IN  /\ pc[r] = "idle"
        /\ req' = [req EXCEPT ![r] = [op |-> "enroll",
                                      args |-> [user_id |-> u, course_id |-> c]]]
        /\ IF existing # 0
           THEN /\ pc' = [pc EXCEPT ![r] = "done"]
                /\ loc' = [loc EXCEPT ![r].body = enrollment[existing]]
           ELSE /\ pc' = [pc EXCEPT ![r] = "enroll_create"]
                /\ loc' = loc
        /\ UNCHANGED <<course, lesson, enrollment, progress, quiz, certificate,
                       payment, resp, marked>>

EnrollCreate(r) ==
    /\ pc[r] = "enroll_create"
    /\ enrollment' = CreateEnrollment(enrollment, req[r].args.user_id,
                                      req[r].args.course_id)
    /\ loc' = [loc EXCEPT ![r].body = [_id |-> NewId(enrollment), status |-> "enrolled"]]
    /\ pc' = [pc EXCEPT ![r] = "done"]
    /\ UNCHANGED <<course, lesson, progress, quiz, certificate, payment, resp,
                   marked, req>>

\* mark_progress, to its find_one: pr and completed are the handler's locals.
MarkFind(r, u, c, l) ==
    /\ pc[r] = "idle"
    /\ req' = [req EXCEPT ![r] = [op |-> "mark_progress",
                  args |-> [user_id |-> u, course_id |-> c, lesson_id |-> l]]]
    /\ loc' = [loc EXCEPT ![r].pr = FindByPair(progress, u, c),
                          ![r].completed = CompletedAfter(progress, u, c, l)]
    /\ pc' = [pc EXCEPT ![r] = "mark_write"]
    /\ UNCHANGED <<course, lesson, enrollment, progress, quiz, certificate,
                   payment, resp, marked>>

MarkWrite(r) ==
    LET a == req[r].args
    IN  /\ pc[r] = "mark_write"
        /\ progress' = WriteProgress(progress, loc[r].pr, a.user_id, a.course_id,
                                     loc[r].completed, a.lesson_id)
        /\ marked' = [marked EXCEPT ![<<a.user_id, a.course_id>>] = @ \cup {a.lesson_id}]
        /\ pc' = [pc EXCEPT ![r] = "mark_count"]
        /\ UNCHANGED <<course, lesson, enrollment, quiz, certificate, payment,
                       resp, req, loc>>

MarkCount(r) ==
    LET n == CountByCourse(lesson, req[r].args.course_id)
    IN  /\ pc[r] = "mark_count"
        /\ loc' = [loc EXCEPT ![r].total_lessons = IF n = 0 THEN 1 ELSE n,
                              ![r].percent = Percent(lesson, req[r].args.course_id,
                                                     loc[r].completed)]
        /\ pc' = [pc EXCEPT ![r] = "mark_upsert"]
        /\ UNCHANGED <<course, lesson, enrollment, progress, quiz, certificate,
                       payment, resp, marked, req>>

MarkUpsert(r) ==
    /\ pc[r] = "mark_upsert"
    /\ enrollment' = UpsertEnrollment(enrollment, req[r].args.user_id,
                                      req[r].args.course_id, loc[r].percent)
    /\ loc' = [loc EXCEPT ![r].body = [progress |-> loc[r].percent]]
    /\ pc' = [pc EXCEPT ![r] = "done"]
    /\ UNCHANGED <<course, lesson, progress, quiz, certificate, payment, resp,
                   marked, req>>

NextConc ==
    \/ \E r \in Reqs, u \in UserIds, c \in CourseIds : EnrollFind(r, u, c)
    \/ \E r \in Reqs : EnrollCreate(r)
    \/ \E r \in Reqs, u \in UserIds, c \in CourseIds, l \in LessonIds :
           MarkFind(r, u, c, l)
    \/ \E r \in Reqs : MarkWrite(r)
    \/ \E r \in Reqs : MarkCount(r)
    \/ \E r \in Reqs : MarkUpsert(r)
    \/ \E c \in CourseIds : AdminCreateLesson(c, MaxLessonsConc)

SpecConc == Init /\ [][NextConc]_vars

(* ------------------------------------------- claims: enrollment, progress *)

IsEnrollResp(r, u, c) ==
    r.op = "enroll" /\ r.code = 200 /\ r.args.user_id = u /\ r.args.course_id = c

IsMarkResp(r) == r.op = "mark_progress" /\ r.code = 200

LessonsOrOne(c) == IF CountByCourse(lesson, c) = 0 THEN 1 ELSE CountByCourse(lesson, c)

\* C1 as stated: of two enroll calls in a row for one pair, both responses carry
\* status "enrolled" and progress 0.0, and the second call leaves the enrollment
\* collection as it was.
C1_BothResponsesCarryProgress ==
    [][\A u \in UserIds, c \in CourseIds :
          (IsEnrollResp(resp, u, c) /\ IsEnrollResp(resp', u, c)) =>
              /\ Carries(resp.body, "status", "enrolled")
              /\ Carries(resp.body, "progress", 0)
              /\ Carries(resp'.body, "status", "enrolled")
              /\ Carries(resp'.body, "progress", 0)
              /\ enrollment' = enrollment]_vars

\* C1 amended: the second of two enroll calls in a row for one pair creates no
\* enrollment document, modifies none and returns the stored document of the pair;
\* when the first call created the document, its response carries _id and status
\* "enrolled" only (no progress field), and the second response is that document,
\* with status "enrolled" and progress 0.0.
C1_SecondEnrollReturnsStored ==
    [][\A u \in UserIds, c \in CourseIds :
          (IsEnrollResp(resp, u, c) /\ IsEnrollResp(resp', u, c)) =>
              /\ enrollment' = enrollment
              /\ FindByPair(enrollment, u, c) # 0
              /\ resp'.body = enrollment[FindByPair(enrollment, u, c)]
              /\ (DOMAIN resp.body = {"_id", "status"} =>
                     /\ resp.body.status = "enrolled"
                     /\ resp'.body._id = resp.body._id
                     /\ resp'.body.status = "enrolled"
                     /\ resp'.body.progress = 0)]_vars

\* C1's case: enroll answered with the stored document, enrolled at 0.0 (the second
\* call after the one that created it).
C1_Witness ==
    /\ IsEnrollResp(resp, "u1", "c1")
    /\ DOMAIN resp.body = {"_id", "user_id", "course_id", "status", "progress"}
    /\ resp.body.status = "enrolled"
    /\ resp.body.progress = 0
    /\ FindByPair(progress, "u1", "c1") = 0

\* C2 as stated: every mark_progress call returns exactly
\* 100 * (distinct lessons marked for the pair) / (lessons of the course, or 1).
C2_PercentExact ==
    IsMarkResp(resp) =>
        resp.body.progress * LessonsOrOne(resp.args.course_id)
            = 10000 * Cardinality(marked[<<resp.args.user_id, resp.args.course_id>>])

\* C2 amended: every mark_progress call returns 100 * (distinct lessons marked for
\* the pair) / (lessons of the course, or 1) rounded to two decimals; the stored
\* completed set is the set of the lessons marked so far, and marking a lesson that
\* is already completed leaves the completed set and the returned percent as they
\* were.  With 4 lessons that is 25.0 for one lesson and 50.0 for two.
C2_PercentRounded ==
    [][IsMarkResp(resp') =>
          LET u == resp'.args.user_id
              c == resp'.args.course_id
              n == Cardinality(marked'[<<u, c>>])
              total == IF CountByCourse(lesson', c) = 0 THEN 1
                       ELSE CountByCourse(lesson', c)
              d == resp'.body.progress * total - 10000 * n
              i == FindByPair(progress', u, c)
          IN  /\ 2 * d <= total /\ -2 * d <= total
              /\ i # 0
              /\ progress'[i].completed_lessons = marked'[<<u, c>>]
              /\ resp'.args.lesson_id \in marked'[<<u, c>>]
              /\ (total = 4 /\ n = 1 => resp'.body.progress = 2500)
              /\ (total = 4 /\ n = 2 => resp'.body.progress = 5000)
              /\ (resp'.args.lesson_id \in marked[<<u, c>>] =>
                     /\ progress'[i].completed_lessons
                            = progress[FindByPair(progress, u, c)].completed_lessons
                     /\ (IsMarkResp(resp) /\ resp.args.user_id = u /\ resp.args.course_id = c
                            => resp'.body.progress = resp.body.progress))]_vars

\* C2's case: on a course of 4 lessons L1 then L2 were marked and the second call
\* returned 50.0.
C2_Witness ==
    /\ IsMarkResp(resp)
    /\ resp.args.user_id = "u1" /\ resp.args.course_id = "c1" /\ resp.args.lesson_id = "L2"
    /\ CountByCourse(lesson, "c1") = 4
    /\ marked[<<"u1", "c1">>] = {"L1", "L2"}
    /\ resp.body.progress = 5000

\* C3: the progress of every enrollment document is within 0..100.
C3_ProgressWithin0To100 ==
    \A i \in 1..Len(enrollment) :
        enrollment[i].progress >= 0 /\ enrollment[i].progress <= 10000

\* C8: with requests handled one at a time there is at most one enrollment
\* document and at most one progress document per (user_id, course_id).
C8_AtMostOnePerPair ==
    \A u \in UserIds, c \in CourseIds :
        /\ Cardinality({i \in 1..Len(enrollment) :
               enrollment[i].user_id = u /\ enrollment[i].course_id = c}) <= 1
        /\ Cardinality({i \in 1..Len(progress) :
               progress[i].user_id = u /\ progress[i].course_id = c}) <= 1

\* C8's case: mark_progress came before enroll (the enrollment was upserted, so it
\* carries no status), and enroll was then called for the pair.
C8_Witness ==
    /\ IsEnrollResp(resp, "u1", "c1")
    /\ FindByPair(progress, "u1", "c1") # 0
    /\ FindByPair(enrollment, "u1", "c1") # 0
    /\ enrollment[FindByPair(enrollment, "u1", "c1")].status = Missing

\* C10: a completed mark_progress leaves an enrollment document of the pair whose
\* progress is the percent returned, its status and every other enrollment document
\* as they were; a mark_progress stopped between its two writes leaves the lesson in
\* the progress record and the enrollment collection as it was.
C10_EnrollmentFrame ==
    [][/\ IsMarkResp(resp') =>
            LET u == resp'.args.user_id
                c == resp'.args.course_id
                i == FindByPair(enrollment, u, c)
                j == FindByPair(enrollment', u, c)
            IN  /\ j # 0
                /\ enrollment'[j].progress = resp'.body.progress
                /\ \A k \in 1..Len(enrollment) :
                       k # i => enrollment'[k] = enrollment[k]
                /\ IF i # 0
                   THEN /\ j = i
                        /\ Len(enrollment') = Len(enrollment)
                        /\ enrollment'[j].status = enrollment[i].status
                        /\ enrollment'[j]._id = enrollment[i]._id
                   ELSE /\ j = Len(enrollment) + 1
                        /\ Len(enrollment') = Len(enrollment) + 1
       /\ (resp'.op = "mark_progress" /\ resp'.code = 500) =>
            LET u == resp'.args.user_id
                c == resp'.args.course_id
                i == FindByPair(progress', u, c)
            IN  /\ enrollment' = enrollment
                /\ i # 0
                /\ resp'.args.lesson_id \in progress'[i].completed_lessons]_vars

\* C10's case: the pair is enrolled with the percent of one lesson, and a
\* mark_progress of a second lesson stopped after its progress write.
C10_Witness ==
    /\ resp.op = "mark_progress" /\ resp.code = 500
    /\ resp.args.user_id = "u1" /\ resp.args.course_id = "c1" /\ resp.args.lesson_id = "L2"
    /\ FindByPair(progress, "u1", "c1") # 0
    /\ progress[FindByPair(progress, "u1", "c1")].completed_lessons = {"L1", "L2"}
    /\ FindByPair(enrollment, "u1", "c1") # 0
    /\ enrollment[FindByPair(enrollment, "u1", "c1")].status = "enrolled"
    /\ enrollment[FindByPair(enrollment, "u1", "c1")].progress = 10000

(* -------------------------------------------------------------- quizzes *)

QuizCourseIds == {"c1"}
Questions == {[answer |-> 0], [answer |-> 1]}
AnswerValues == {0, 1}

SeqsUpTo(S, n) == UNION {[1..k -> S] : k \in 0..n}

\* find_one({"_id": id}): the position of the document with that _id, 0 for None.
FindById(coll, id) ==
    LET hits == {i \in 1..Len(coll) : coll[i]._id = id}
    IN  IF hits = {} THEN 0 ELSE Min(hits)

\* find_one({"course_id": c})
FindByCourse(coll, c) ==
    LET hits == {i \in 1..Len(coll) : coll[i].course_id = c}
    IN  IF hits = {} THEN 0 ELSE Min(hits)

\* The quiz get_quiz seeds: "Quick Check", answers 1 and 0.
SeededQuestions == <<[answer |-> 1], [answer |-> 0]>>

Max(a, b) == IF a >= b THEN a ELSE b

\* for idx, q in enumerate(questions):
\*     if idx < len(answers) and answers[idx] == q.get("answer"): correct += 1
Correct(questions, answers) ==
    Cardinality({idx \in 1..Len(questions) :
        idx <= Len(answers) /\ answers[idx] = questions[idx].answer})

ScoreOverAnswered(questions, answers) ==
    Round2(100 * Correct(questions, answers), Max(1, Len(answers)))

\* score = round(100 * correct / max(1, len(questions)), 2)
Score(questions, answers) ==
    Round2(100 * Correct(questions, answers), Max(1, Len(questions)))

GetQuiz(c) ==
    LET qz == FindByCourse(quiz, c)
    IN  /\ IF qz # 0
           THEN /\ quiz' = quiz
                /\ resp' = Response("get_quiz", [course_id |-> c], 200, quiz[qz])
           ELSE /\ quiz' = CreateDocument(quiz, [course_id |-> c, title |-> "Quick Check",
                                                 questions |-> SeededQuestions])
                /\ resp' = Response("get_quiz", [course_id |-> c], 200,
                                    quiz'[FindById(quiz', NewId(quiz))])
        /\ UNCHANGED <<course, lesson, enrollment, progress, certificate, payment,
                       marked, pc, req, loc>>

AdminCreateQuiz(c, questions) ==
    /\ Len(quiz) < MaxQuizzes
    /\ quiz' = CreateDocument(quiz, [course_id |-> c, title |-> "admin",
                                     questions |-> questions])
    /\ resp' = Response("admin_create_quiz", [course_id |-> c], 200,
                        [_id |-> NewId(quiz)])
    /\ UNCHANGED <<course, lesson, enrollment, progress, certificate, payment,
                   marked, pc, req, loc>>

\* submit_quiz: 404 when neither lookup finds the quiz (both lookups are by _id).
SubmitQuiz(quiz_id, answers) ==
    LET qz == IF FindById(quiz, quiz_id) # 0 THEN FindById(quiz, quiz_id)
              ELSE FindById(quiz, quiz_id)
        args == [quiz_id |-> quiz_id, answers |-> answers]
    IN  /\ IF qz = 0
           THEN resp' = Response("submit_quiz", args, 404, NoBody)
           ELSE resp' = Response("submit_quiz", args, 200,
                                 [quiz_id |-> quiz[qz]._id,
                                  score |-> Score(quiz[qz].questions, answers)])
        /\ UNCHANGED <<course, lesson, enrollment, progress, quiz, certificate,
                       payment, marked, pc, req, loc>>

NextQuiz ==
    \/ \E c \in QuizCourseIds : GetQuiz(c)
    \/ \E c \in QuizCourseIds, qs \in SeqsUpTo(Questions, MaxQuestions) :
           AdminCreateQuiz(c, qs)
    \/ \E id \in 1..(MaxQuizzes + 2), a \in SeqsUpTo(AnswerValues, MaxAnswers) :
           SubmitQuiz(id, a)

SpecQuiz == Init /\ [][NextQuiz]_vars

(* --------------------------------------------------------- certificates *)

CertUserIds == {"u1", "u2"}
Codes == {"FO-100000", "FO-555555", "FO-999999"}

IssueAlwaysCreate(cert, u, c, code) ==
    [certificate |-> CreateDocument(cert, [user_id |-> u, course_id |-> c,
                                           certificate_code |-> code]),
     body |-> [_id |-> NewId(cert), certificate_code |-> code]]

\* issue_certificate with code the value random.randint drew: the collection
\* afterwards and the value returned.  url repeats the code; issued_at is a clock
\* reading no handler reads back.
IssueCertificateHandler(cert, u, c, code) ==
    LET existing == FindByPair(cert, u, c)
    IN  IF existing # 0
        THEN [certificate |-> cert, body |-> cert[existing]]
        ELSE [certificate |-> CreateDocument(cert, [user_id |-> u, course_id |-> c,
                                                    certificate_code |-> code]),
              body |-> [_id |-> NewId(cert), certificate_code |-> code]]

IssueCertificate(u, c, code) ==
    LET r == IssueCertificateHandler(certificate, u, c, code)
    IN  /\ certificate' = r.certificate
        /\ resp' = Response("issue_certificate",
                            [user_id |-> u, course_id |-> c, drawn |-> code],
                            200, r.body)
        /\ UNCHANGED <<course, lesson, enrollment, progress, quiz, payment,
                       marked, pc, req, loc>>

NextCert ==
    \E u \in CertUserIds, c \in CourseIds, code \in Codes : IssueCertificate(u, c, code)

SpecCert == Init /\ [][NextCert]_vars

(* ------------------------------------------------------------- payments *)

PayCourseIds == {1, 6, 99}
Prices == {0, 49}
Sessions == {"sess_100000", "sess_999999"}

\* float(x): a number for a number, TypeError for a dict.
Float(x) ==
    IF x.type = "number" THEN [raised |-> FALSE, value |-> x.value]
    ELSE [raised |-> TRUE, value |-> "TypeError"]

\* float(collection("course").find_one({"_id": {"$oid": course_id}}) or {}).get("price", 0.0):
\* float is applied to the document (or to {}), and .get to what float returns.
Amount(courses, course_id) ==
    LET found == FindById(courses, course_id)
        doc == IF found # 0 THEN courses[found] ELSE NoBody
    IN  Float([type |-> "dict", value |-> doc])

\* create_payment_session: the payment dict is built before create_document is
\* called, so an exception in it leaves the collection as it was.
CreatePaymentSession(u, c, gateway, currency, session_id) ==
    LET amount == Amount(course, c)
        args == [user_id |-> u, course_id |-> c, gateway |-> gateway,
                 currency |-> currency]
    IN  /\ IF amount.raised
           THEN /\ payment' = payment
                /\ resp' = Response("create_payment_session", args, 500, NoBody)
           ELSE /\ payment' = CreateDocument(payment,
                       [user_id |-> u, course_id |-> c, amount |-> amount.value,
                        currency |-> currency, gateway |-> gateway,
                        status |-> "created", session_id |-> session_id])
                /\ resp' = Response("create_payment_session", args, 200,
                                    [session_id |-> session_id,
                                     payment_id |-> NewId(payment)])
        /\ UNCHANGED <<course, lesson, enrollment, progress, quiz, certificate,
                       marked, pc, req, loc>>

AdminCreateCourse(price) ==
    /\ Len(course) < MaxCourses
    /\ course' = CreateDocument(course, [category |-> "IELTS", price |-> price])
    /\ resp' = Response("admin_create_course", [price |-> price], 200,
                        [_id |-> NewId(course)])
    /\ UNCHANGED <<lesson, enrollment, progress, quiz, certificate, payment,
                   marked, pc, req, loc>>

NextPay ==
    \/ \E u \in CertUserIds, c \in PayCourseIds, g \in {"stripe", "razorpay"},
          cur \in {"USD", "INR"}, sid \in Sessions :
           CreatePaymentSession(u, c, g, cur, sid)
    \/ \E price \in Prices : AdminCreateCourse(price)

SpecPay == Init /\ [][NextPay]_vars

(* ------------------------------- claims: quizzes, certificates, payments *)

IsSubmitResp(r) == r.op = "submit_quiz" /\ r.code = 200

\* The number of positions i with i < len(answers) and answers[i] equal to the
\* stored answer of question i, counted position by position.
RECURSIVE PositionalMatches(_, _, _)
PositionalMatches(questions, answers, i) ==
    IF i > Len(questions) THEN 0
    ELSE (IF i <= Len(answers) /\ answers[i] = questions[i].answer THEN 1 ELSE 0)
         + PositionalMatches(questions, answers, i + 1)

\* C4 as stated: the score returned is exactly 100 * correct / max(1, questions).
C4_ScoreExact ==
    IsSubmitResp(resp) =>
        LET qs == quiz[FindById(quiz, resp.args.quiz_id)].questions
        IN  resp.body.score * Max(1, Len(qs))
                = 10000 * PositionalMatches(qs, resp.args.answers, 1)

\* C4 amended: the score returned is 100 * correct / max(1, questions) rounded to
\* two decimals, correct counted positionally (an unanswered tail question is
\* incorrect, a surplus answer is ignored); against the seeded quiz [1,0] scores
\* 100.0 and [0,0] scores 50.0.
C4_ScoreRounded ==
    IsSubmitResp(resp) =>
        LET qs == quiz[FindById(quiz, resp.args.quiz_id)].questions
            den == IF Len(qs) = 0 THEN 1 ELSE Len(qs)
            d == resp.body.score * den
                     - 10000 * PositionalMatches(qs, resp.args.answers, 1)
        IN  /\ 2 * d <= den /\ -2 * d <= den
            /\ resp.body.quiz_id = resp.args.quiz_id
            /\ (qs = SeededQuestions /\ resp.args.answers = <<1, 0>>
                    => resp.body.score = 10000)
            /\ (qs = SeededQuestions /\ resp.args.answers = <<0, 0>>
                    => resp.body.score = 5000)

\* C4's case: the quiz get_quiz seeded was answered [0,0] and scored 50.0.
C4_Witness ==
    /\ IsSubmitResp(resp)
    /\ quiz[FindById(quiz, resp.args.quiz_id)].title = "Quick Check"
    /\ resp.args.answers = <<0, 0>>
    /\ resp.body.score = 5000

IsIssueResp(r, u, c) ==
    r.op = "issue_certificate" /\ r.code = 200
        /\ r.args.user_id = u /\ r.args.course_id = c

\* C5: of two issue_certificate calls in a row for one pair, the second returns
\* the certificate_code the first returned, whatever code it drew, and leaves
\* the certificate collection as it was.
C5_SameCodeTwice ==
    [][\A u \in CertUserIds, c \in CourseIds :
          (IsIssueResp(resp, u, c) /\ IsIssueResp(resp', u, c)) =>
              /\ resp'.body.certificate_code = resp.body.certificate_code
              /\ certificate' = certificate
              /\ Cardinality({i \in 1..Len(certificate) :
                     certificate[i].user_id = u /\ certificate[i].course_id = c}) = 1]_vars

\* C5's case: a call that drew a code other than the one it returned (the second
\* call for its pair).
C5_Witness ==
    /\ IsIssueResp(resp, "u1", "c1")
    /\ resp.args.drawn = "FO-999999"
    /\ resp.body.certificate_code = "FO-100000"

\* C6: create_payment_session for a course_id that matches no course document
\* completes without an error and records a payment of amount 0.0, status "created".
C6_PaymentForUnknownCourse ==
    (resp.op = "create_payment_session" /\ FindById(course, resp.args.course_id) = 0) =>
        /\ resp.code = 200
        /\ \E i \in 1..Len(payment) :
               /\ payment[i]._id = resp.body.payment_id
               /\ payment[i].course_id = resp.args.course_id
               /\ payment[i].amount = 0
               /\ payment[i].status = "created"

(* ----------------------------------------- claims: requests in flight together *)

EnrollCreated(r, u, c) ==
    /\ req[r].op = "enroll" /\ pc[r] = "done"
    /\ req[r].args.user_id = u /\ req[r].args.course_id = c
    /\ DOMAIN loc[r].body = {"_id", "status"}

\* C7: an enroll request whose lookup found nothing creates a document of its own
\* whatever was created since its lookup: per pair there are as many documents
\* created by enroll as enroll requests that found nothing, each under the _id its
\* request returned, so two requests that both looked up before either created
\* leave two enrollment documents for the pair.
C7_EveryCreateAddsADocument ==
    \A u \in UserIds, c \in CourseIds :
        /\ Cardinality({i \in 1..Len(enrollment) :
               /\ enrollment[i].user_id = u /\ enrollment[i].course_id = c
               /\ enrollment[i].status = "enrolled"})
             = Cardinality({r \in Reqs : EnrollCreated(r, u, c)})
        /\ \A r1, r2 \in Reqs :
               (r1 # r2 /\ EnrollCreated(r1, u, c) /\ EnrollCreated(r2, u, c)) =>
                   /\ loc[r1].body._id # loc[r2].body._id
                   /\ FindById(enrollment, loc[r1].body._id) # 0
                   /\ FindById(enrollment, loc[r2].body._id) # 0

\* C7's case: two enroll requests for one pair have both returned a new document,
\* and the pair has two enrollment documents.
C7_Witness ==
    /\ \E r1, r2 \in Reqs :
           r1 # r2 /\ EnrollCreated(r1, "u1", "c1") /\ EnrollCreated(r2, "u1", "c1")
    /\ Cardinality({i \in 1..Len(enrollment) :
           enrollment[i].user_id = "u1" /\ enrollment[i].course_id = "c1"}) = 2

MarkWritten(r, u, c) ==
    /\ req[r].op = "mark_progress"
    /\ pc[r] \in {"mark_count", "mark_upsert", "done"}
    /\ req[r].args.user_id = u /\ req[r].args.course_id = c

MarkDone(r, u, c) == MarkWritten(r, u, c) /\ pc[r] = "done"

\* C9: every progress document holds what one request wrote from its own read (its
\* snapshot plus its own lesson), never a merge.  So when two mark_progress
\* requests for one pair with different lessons have both finished, neither having
\* read the other's lesson, and no other request wrote the pair's progress: no
\* progress document of the pair holds both lessons although both were written,
\* and the enrollment's progress is the percent one of the two computed, which is
\* lower than 100 * 2 / (the lessons it counted).
C9_LostLesson ==
    /\ \A i \in 1..Len(progress) :
           \E r \in Reqs :
               /\ MarkWritten(r, progress[i].user_id, progress[i].course_id)
               /\ progress[i].last_lesson_id = req[r].args.lesson_id
               /\ progress[i].completed_lessons = loc[r].completed
    /\ \A u \in UserIds, c \in CourseIds : \A r1, r2 \in Reqs :
           ( /\ r1 # r2
             /\ MarkDone(r1, u, c) /\ MarkDone(r2, u, c)
             /\ req[r1].args.lesson_id # req[r2].args.lesson_id
             /\ req[r2].args.lesson_id \notin loc[r1].completed
             /\ req[r1].args.lesson_id \notin loc[r2].completed
             /\ \A r3 \in Reqs \ {r1, r2} : ~MarkWritten(r3, u, c) ) =>
               LET both == {req[r1].args.lesson_id, req[r2].args.lesson_id}
                   e == FindByPair(enrollment, u, c)
               IN  /\ both \subseteq marked[<<u, c>>]
                   /\ \A i \in 1..Len(progress) :
                          (progress[i].user_id = u /\ progress[i].course_id = c)
                              => ~(both \subseteq progress[i].completed_lessons)
                   /\ e # 0
                   /\ \E r \in {r1, r2} :
                          /\ enrollment[e].progress = loc[r].percent
                          /\ 2 * (loc[r].percent * loc[r].total_lessons - 20000)
                                 < -loc[r].total_lessons

\* C9's case: two mark_progress requests for one pair, L1 and L2, have both
\* finished; two progress documents exist, each with one lesson, and the
\* enrollment stands at the percent of one lesson.
C9_Witness ==
    /\ \E r1, r2 \in Reqs :
           /\ MarkDone(r1, "u1", "c1") /\ MarkDone(r2, "u1", "c1")
           /\ req[r1].args.lesson_id = "L1" /\ req[r2].args.lesson_id = "L2"
           /\ loc[r1].completed = {"L1"} /\ loc[r2].completed = {"L2"}
    /\ marked[<<"u1", "c1">>] = {"L1", "L2"}
    /\ Cardinality({i \in 1..Len(progress) :
           progress[i].user_id = "u1" /\ progress[i].course_id = "c1"}) = 2
    /\ enrollment[FindByPair(enrollment, "u1", "c1")].progress = 10000

====
